---- MODULE Spec2Model ----
(***************************************************************************)
(* sensit-audio-cli: the playlist queue (lib.rs), the playback engine      *)
(* (AudioStream::load, lib.rs), the player worker (player_actor.rs) and    *)
(* the orchestrator (JukeBox, main.rs), with the crossbeam channels that   *)
(* connect them.                                                           *)
(*                                                                         *)
(* Threads: the JukeBox (main thread, position opc), the player actor      *)
(* (position wpc; the engine's decode loop runs on this thread), the       *)
(* device callback of the current cpal stream, and the input actor.        *)
(* A step is one critical section: everything a thread does between two    *)
(* operations another thread can observe (a lock of a StreamState cell, a  *)
(* channel operation that may block, a ring-buffer operation).             *)
(***************************************************************************)
EXTENDS Integers, Sequences, FiniteSets, TLC

\* ---------------------------------------------------------------- bounds
\* Longest playlist.
MaxLen == 3
\* Streams AudioStreamBuilder::load may build in one run.
MaxEngines == 3
\* Packets of a track.
MaxPackets == 2
\* Frames the decoder yields for one packet.
MaxFrames == 1
\* Longest resampled block (samples).
MaxBlock == 2
\* Commands the input source sends in one run.
MaxCmds == 3
\* Most samples one device callback asks for.
MaxRequest == 2
\* Keys pressed in one run of the key table on its own.
MaxKeys == 3

\* -------------------------------------------------------------- constants
None == "None"

\* lib.rs StreamState
StreamState == {"Play", "Pause", "Stop", "Done"}

\* main.rs Command
Command ==
    {"Quit", "Next", "Previous", "Restart", "TogglePlay", "ToggleLoop",
     "ToggleAutoplay", "ToggleShowState"}

\* Capacities the ring buffer is built with: at least one resampled block.
BufferSizes == MaxBlock .. (MaxBlock + 1)

VARIABLES
    \* PlaylistQueue
    playlist_len,   \* playlist.len()
    index,          \* cursor
    loop_playlist,  \* cfg.loop_playlist
    \* JukeBox
    autoplay,       \* cfg.autoplay
    show_state,     \* cfg.show_state
    stream_state,   \* Option<StreamStateLock>: 0 is None, else the cell's number
    opc,            \* position of the main thread
    handling,       \* the message whose handler is running
    snapshot,       \* Restart's copy of the state (main.rs 233)
    \* the StreamState cells, one per stream built, in build order
    cells,
    \* AudioPlayerActor and its current AudioStream
    wpc,            \* position of the player thread
    wevent,         \* the event handle_prepare is sending
    stream,         \* Option<AudioStream>: 0 is None, else the stream's number
    audio_file,     \* playlist position of the stream's file
    packets,        \* packets the demuxer still holds
    frames,         \* frames the decoder still holds for the current packet
    block,          \* length of the resampled block waiting for space
    buffer,         \* the ring buffer: samples pushed and not yet popped
    pushed,         \* samples ever pushed into the ring buffer
    device_playing, \* the cpal stream runs its callback
    buffer_size,    \* AudioStreamBuilder.buffer_size
    \* channels, each bounded(1)
    input_ch,
    command_ch,
    res_ch,
    event_ch,
    \* InputActor
    input_state,
    sent,           \* commands sent so far
    \* history
    toggled,        \* the TogglePlay commands handled back to back
    qlog,           \* the last two PlaylistQueue calls
    qret,           \* what the last PlaylistQueue call returned
    load_failed,    \* a Load has been answered with Err
    keys,           \* the keys pressed so far (the key table on its own)
    last_load,      \* how the last Load was answered: "Ok", "Err", or None
    played          \* the slots write_audio has filled (the buffer on its own)

queue_vars == <<playlist_len, index, loop_playlist>>
jukebox_vars == <<autoplay, show_state, stream_state, opc, handling, snapshot>>
engine_vars == <<audio_file, packets, frames, block, buffer, pushed, device_playing>>
worker_vars == <<wpc, wevent, stream>>
channel_vars == <<input_ch, command_ch, res_ch, event_ch>>
input_vars == <<input_state, sent>>
history_vars ==
    <<toggled, qlog, qret, load_failed, keys, last_load, played>>

vars ==
    <<queue_vars, jukebox_vars, cells, engine_vars, worker_vars, buffer_size,
      channel_vars, input_vars, history_vars>>

\* ------------------------------------------------------------ PlaylistQueue
\* Option<&PathBuf>: a track is identified by its position in the playlist.
Some(i) == [kind |-> "Some", val |-> i]
NoTrack == [kind |-> "None", val |-> 0]
\* Result<(), InvalidIndex>
Ok == [kind |-> "Ok", val |-> 0]
InvalidIndex == [kind |-> "InvalidIndex", val |-> 0]

\* Vec::get
Get(i, len) == IF i >= 0 /\ i < len THEN Some(i) ELSE NoTrack

\* PlaylistQueue::current
PlaylistQueue_current(idx, len) == Get(idx, len)

\* PlaylistQueue::next: the new cursor and the returned track.
PlaylistQueue_next_unclamped(idx, looping, len) ==
    IF looping
    THEN LET i == IF idx + 1 >= len THEN 0 ELSE idx + 1
         IN  [index |-> i, ret |-> Some(i)]
    ELSE [index |-> idx + 1, ret |-> Get(idx + 1, len)]
PlaylistQueue_next(idx, looping, len) ==
    IF looping
    THEN LET i == IF idx + 1 >= len THEN 0 ELSE idx + 1
         IN  [index |-> i, ret |-> Some(i)]
    ELSE LET i == IF idx < len THEN idx + 1 ELSE idx
         IN  [index |-> i, ret |-> Get(i, len)]

\* PlaylistQueue::next_back
PlaylistQueue_next_back_nowrap(idx, looping, len) ==
    IF idx = 0
    THEN [index |-> idx, ret |-> IF looping THEN Some(idx) ELSE NoTrack]
    ELSE [index |-> idx - 1, ret |-> Some(idx - 1)]
PlaylistQueue_next_back(idx, looping, len) ==
    IF looping
    THEN LET i == (IF idx = 0 THEN len ELSE idx) - 1
         IN  [index |-> i, ret |-> Some(i)]
    ELSE IF idx = 0
         THEN [index |-> idx, ret |-> NoTrack]
         ELSE [index |-> idx - 1, ret |-> Some(idx - 1)]

\* PlaylistQueue::set_index
PlaylistQueue_set_index_inclusive(idx, i, len) ==
    IF i > len
    THEN [index |-> idx, ret |-> InvalidIndex]
    ELSE [index |-> i, ret |-> Ok]
PlaylistQueue_set_index(idx, i, len) ==
    IF i >= len
    THEN [index |-> idx, ret |-> InvalidIndex]
    ELSE [index |-> i, ret |-> Ok]

\* ------------------------------------------------------------------ Init
\* run() returns before any thread is spawned when the playlist is empty, so
\* the queue holds at least one track. PlaylistQueue::new, JukeBox::new,
\* AudioPlayerActor::new and InputActor::new give the rest.
Init ==
    /\ playlist_len \in 1 .. MaxLen
    /\ index = 0
    /\ loop_playlist = TRUE
    /\ autoplay = TRUE
    /\ show_state = TRUE
    /\ stream_state = 0
    /\ opc = "start"
    /\ handling = "Startup"
    /\ snapshot = None
    /\ cells = <<>>
    /\ wpc = "recv"
    /\ wevent = None
    /\ stream = 0
    /\ audio_file = 0
    /\ packets = 0
    /\ frames = 0
    /\ block = 0
    /\ buffer = <<>>
    /\ pushed = 0
    /\ device_playing = FALSE
    /\ buffer_size \in BufferSizes
    /\ input_ch = <<>>
    /\ command_ch = <<>>
    /\ res_ch = <<>>
    /\ event_ch = <<>>
    /\ input_state = "Active"
    /\ sent = 0
    /\ toggled = <<>>
    /\ qlog = <<>>
    /\ qret = NoTrack
    /\ load_failed = FALSE
    /\ keys = <<>>
    /\ last_load = None
    /\ played = <<>>

\* -------------------------------------------------------------- channels
\* channel::bounded(1): a send waits while the channel holds a message. The
\* message stays in the channel until the receiver takes it; the sender goes
\* on as soon as it has put it there.
FullNever(ch) == FALSE
Full(ch) == Len(ch) >= 1

\* --------------------------------------------------------------- JukeBox
\* The loop of JukeBox::run has ended (break, or the panic of run's expect):
\* the JukeBox's channel ends are dropped.
JukeBoxGoneEarly == opc \in {"exited", "panicked", "wait_prepare"}
JukeBoxGone == opc \in {"exited", "panicked"}

\* The player thread has ended (its loop broke, or it panicked): its channel
\* ends are dropped.
WorkerGone == wpc \in {"exited", "panicked"}

\* Where a handler that returned Err leaves the main thread: the expect of
\* run (main.rs 171-173) panics, the loop (main.rs 188-208) breaks.
Failed(h) == IF h = "Startup" THEN "panicked" ELSE "exited"

\* The Arc of cell h loses a holder: the cell is freed unless the other
\* holder (the stream `other`, or the handle `other`) still points at it.
release(c, h, other) ==
    IF h = 0 \/ h = other THEN c ELSE [c EXCEPT ![h] = "Dropped"]

\* JukeBox::run ends at position pc (main.rs 118-119): the JukeBox is dropped,
\* and with it its handle of the state and its channel ends.
LeaveNot(pc) ==
    /\ opc' = "select"
    /\ stream_state' = stream_state
    /\ cells' = cells
Leave(pc) ==
    /\ opc' = pc
    /\ stream_state' = 0
    /\ cells' = release(cells, stream_state, stream)

\* JukeBox::play on the cell of handle h (no handle: nothing).
play(c, h) == IF h = 0 THEN c ELSE [c EXCEPT ![h] = "Play"]

\* JukeBox::pause
pause(c, h) == IF h = 0 THEN c ELSE [c EXCEPT ![h] = "Pause"]

\* The write of load_and_prepare_stream before it sends Load.
stop(c, h) == IF h = 0 THEN c ELSE [c EXCEPT ![h] = "Stop"]

\* JukeBox::toggle_play, the value written over state s.
toggle_play_stuck(s) == "Play"
toggle_play(s) == IF s = "Play" THEN "Pause" ELSE "Play"

\* Command::Restart: whether play() follows prepare_current_song.
RestartResumesAlways(snap) == snap # None
RestartResumes(snap) == snap = "Play"

\* Whether the handler of message h calls play() after preparing the song.
PlaysAfter(h) ==
    CASE h = "Startup" -> autoplay
      [] h \in {"Next", "Previous"} -> TRUE
      [] h = "Restart" -> RestartResumes(snapshot)
      [] h = "Done" -> autoplay
      [] OTHER -> FALSE

\* The handler of h returns Err after it wrote the cells c: run's loop
\* breaks, or run's expect panics.
Fails(c, h) ==
    /\ opc' = Failed(h)
    /\ stream_state' = 0
    /\ cells' = release(c, stream_state, stream)
    /\ handling' = "Idle"

\* prepare_current_song / prepare_next_song / play_previous_song once the
\* queue has answered ret, for the handler of h: load_and_prepare_stream up
\* to its first wait, or pause(). The send of Load fails when the player
\* thread has ended.
PrepareSong(ret, h) ==
    IF ret.kind = "Some"
    THEN IF WorkerGone
         THEN /\ Fails(stop(cells, stream_state), h)
              /\ command_ch' = command_ch
         ELSE /\ ~Full(command_ch)
              /\ cells' = stop(cells, stream_state)
              /\ command_ch' = <<[type |-> "Load", file |-> ret.val]>>
              /\ opc' = "wait_load"
              /\ handling' = h
              /\ stream_state' = stream_state
    ELSE /\ cells' = pause(cells, stream_state)
         /\ command_ch' = command_ch
         /\ opc' = IF PlaysAfter(h) THEN "play" ELSE "select"
         /\ handling' = IF PlaysAfter(h) THEN h ELSE "Idle"
         /\ stream_state' = stream_state

\* JukeBox::run up to the first wait of prepare_current_song.
JukeBoxStart ==
    /\ opc = "start"
    /\ PrepareSong(PlaylistQueue_current(index, playlist_len), "Startup")
    /\ UNCHANGED <<queue_vars, autoplay, show_state, snapshot,
                   engine_vars, worker_vars, buffer_size, input_ch, res_ch,
                   event_ch, input_vars, history_vars>>

\* res_rx.recv() returns: a reply is there, or the channel is empty and its
\* sender was dropped with the player thread.
ReplyOrClosed == res_ch # <<>> \/ WorkerGone

\* What res_rx.recv()? hands on: the reply, or the error of a closed channel.
Reply == IF res_ch # <<>> THEN Head(res_ch) ELSE [type |-> "Closed", state |-> 0]

\* load_and_prepare_stream, main.rs 325-333: the reply to Load, then Prepare.
\* The send of Prepare fails when the player thread has ended.
RecvLoadReply ==
    /\ opc = "wait_load"
    /\ ReplyOrClosed
    /\ res_ch' = <<>>
    /\ IF Reply.type = "Ok" /\ ~WorkerGone
       THEN /\ ~Full(command_ch)
            /\ command_ch' = <<[type |-> "Prepare", file |-> 0]>>
            /\ opc' = "wait_prepare"
            /\ UNCHANGED <<handling, snapshot, stream_state, cells>>
       ELSE /\ Fails(cells, handling)
            /\ snapshot' = None
            /\ UNCHANGED command_ch
    /\ UNCHANGED <<queue_vars, autoplay, show_state, engine_vars, worker_vars,
                   buffer_size, input_ch, event_ch, input_vars, history_vars>>

\* load_and_prepare_stream, main.rs 335-386, and the play() that follows it
\* in the caller.
RecvPrepareReply ==
    /\ opc = "wait_prepare"
    /\ ReplyOrClosed
    /\ res_ch' = <<>>
    /\ IF Reply.type = "Ok"
       THEN /\ stream_state' = Reply.state
            /\ cells' = LET c == release(cells, stream_state, stream)
                        IN  IF PlaysAfter(handling)
                            THEN play(c, Reply.state)
                            ELSE c
            /\ opc' = "select"
       ELSE Leave(Failed(handling))
    /\ handling' = "Idle"
    /\ snapshot' = None
    /\ UNCHANGED <<queue_vars, autoplay, show_state, engine_vars, worker_vars,
                   buffer_size, input_ch, command_ch, event_ch, input_vars,
                   history_vars>>

\* The play() of a handler whose navigation found no track and called pause().
Play ==
    /\ opc = "play"
    /\ cells' = play(cells, stream_state)
    /\ opc' = "select"
    /\ handling' = "Idle"
    /\ snapshot' = None
    /\ UNCHANGED <<queue_vars, autoplay, show_state, stream_state, engine_vars,
                   worker_vars, buffer_size, channel_vars, input_vars,
                   history_vars>>

\* select! takes cmd from input_rx. The slot holds one Command; nothing reads
\* it before the JukeBox does, and which one it is shows here. The JukeBox
\* is driven with every Command its Receiver<Command> can deliver; the key
\* table of the input actor (command_from_code) is modelled on its own below.
Selects(cmd) ==
    /\ opc = "select"
    /\ input_ch # <<>>
    /\ cmd \in Command
    /\ input_ch' = <<>>

\* The input actor has dropped its senders.
InputGone == input_state = "Closed"

\* The breaks of run's loop that handle nothing: Command::Quit (main.rs 185),
\* and a recv of select! that fails on a channel that is empty and closed
\* (main.rs 194-198, 210-214).
HandleQuit ==
    /\ \/ Selects("Quit")
       \/ /\ opc = "select"
          /\ \/ InputGone /\ input_ch = <<>>
             \/ WorkerGone /\ event_ch = <<>>
          /\ UNCHANGED input_ch
    /\ Leave("exited")
    /\ toggled' = <<>>
    /\ UNCHANGED <<queue_vars, autoplay, show_state, handling, snapshot,
                   engine_vars, worker_vars, buffer_size, command_ch, res_ch,
                   event_ch, input_vars, qlog, qret,
                   load_failed, keys, last_load, played>>

HandleNext ==
    /\ Selects("Next")
    /\ LET q == PlaylistQueue_next(index, loop_playlist, playlist_len)
       IN  /\ index' = q.index
           /\ PrepareSong(q.ret, "Next")
    /\ toggled' = <<>>
    /\ UNCHANGED <<playlist_len, loop_playlist, autoplay, show_state,
                   snapshot, engine_vars, worker_vars,
                   buffer_size, res_ch, event_ch, input_vars, qlog, qret,
                   load_failed, keys, last_load, played>>

HandlePrevious ==
    /\ Selects("Previous")
    /\ LET q == PlaylistQueue_next_back(index, loop_playlist, playlist_len)
       IN  /\ index' = q.index
           /\ PrepareSong(q.ret, "Previous")
    /\ toggled' = <<>>
    /\ UNCHANGED <<playlist_len, loop_playlist, autoplay, show_state,
                   snapshot, engine_vars, worker_vars,
                   buffer_size, res_ch, event_ch, input_vars, qlog, qret,
                   load_failed, keys, last_load, played>>

\* Command::Restart, main.rs 233-236: the copy of the current state.
HandleRestart ==
    /\ Selects("Restart")
    /\ snapshot' = IF stream_state = 0 THEN None ELSE cells[stream_state]
    /\ opc' = "restart"
    /\ handling' = "Restart"
    /\ toggled' = <<>>
    /\ UNCHANGED <<queue_vars, autoplay, show_state, stream_state, cells,
                   engine_vars, worker_vars, buffer_size, command_ch, res_ch,
                   event_ch, input_vars, qlog, qret,
                   load_failed, keys, last_load, played>>

\* Command::Restart, main.rs 238: prepare_current_song.
RestartPrepare ==
    /\ opc = "restart"
    /\ PrepareSong(PlaylistQueue_current(index, playlist_len), "Restart")
    /\ snapshot' = IF opc' \in {"wait_load", "play"} THEN snapshot ELSE None
    /\ UNCHANGED <<queue_vars, autoplay, show_state,
                   engine_vars, worker_vars, buffer_size, input_ch, res_ch,
                   event_ch, input_vars, history_vars>>

\* Command::TogglePlay: one critical section of the cell's lock.
HandleTogglePlay ==
    /\ Selects("TogglePlay")
    /\ IF stream_state = 0
       THEN UNCHANGED <<cells, toggled>>
       ELSE LET before == cells[stream_state]
                after == toggle_play(before)
                entry == [before |-> before, after |-> after]
            IN  /\ cells' = [cells EXCEPT ![stream_state] = after]
                /\ toggled' = IF toggled = <<>>
                              THEN <<entry>>
                              ELSE <<toggled[Len(toggled)], entry>>
    /\ UNCHANGED <<queue_vars, autoplay, show_state, stream_state, opc,
                   handling, snapshot, engine_vars, worker_vars, buffer_size,
                   command_ch, res_ch, event_ch, input_vars, qlog, qret,
                   load_failed, keys, last_load, played>>

\* main.rs 247, 250, 254: the flag is set to its negation.
toggle_set(flag) == TRUE
toggle(flag) == ~flag

HandleToggleLoop ==
    /\ Selects("ToggleLoop")
    /\ loop_playlist' = toggle(loop_playlist)
    /\ toggled' = <<>>
    /\ UNCHANGED <<playlist_len, index, jukebox_vars, cells, engine_vars,
                   worker_vars, buffer_size, command_ch, res_ch, event_ch,
                   input_vars, qlog, qret,
                   load_failed, keys, last_load, played>>

HandleToggleAutoplay ==
    /\ Selects("ToggleAutoplay")
    /\ autoplay' = toggle(autoplay)
    /\ toggled' = <<>>
    /\ UNCHANGED <<queue_vars, show_state, stream_state, opc, handling,
                   snapshot, cells, engine_vars, worker_vars, buffer_size,
                   command_ch, res_ch, event_ch, input_vars, qlog, qret,
                   load_failed, keys, last_load, played>>

HandleToggleShowState ==
    /\ Selects("ToggleShowState")
    /\ show_state' = toggle(show_state)
    /\ toggled' = <<>>
    /\ UNCHANGED <<queue_vars, autoplay, stream_state, opc, handling,
                   snapshot, cells, engine_vars, worker_vars, buffer_size,
                   command_ch, res_ch, event_ch, input_vars, qlog, qret,
                   load_failed, keys, last_load, played>>

\* select! takes an event of type t from event_rx.
SelectsEvent(t) ==
    /\ opc = "select"
    /\ event_ch # <<>>
    /\ Head(event_ch).type = t
    /\ event_ch' = <<>>

\* handle_event, Event::Done
HandleDone ==
    /\ SelectsEvent("Done")
    /\ LET q == PlaylistQueue_next(index, loop_playlist, playlist_len)
       IN  /\ index' = q.index
           /\ PrepareSong(q.ret, "Done")
    /\ toggled' = <<>>
    /\ UNCHANGED <<playlist_len, loop_playlist, autoplay, show_state,
                   snapshot, engine_vars, worker_vars,
                   buffer_size, input_ch, res_ch, input_vars, qlog, qret,
                   load_failed, keys, last_load, played>>

\* handle_event, Event::StreamErr: Err, and run's loop breaks.
HandleStreamErr ==
    /\ SelectsEvent("StreamErr")
    /\ Leave("exited")
    /\ toggled' = <<>>
    /\ UNCHANGED <<queue_vars, autoplay, show_state, handling, snapshot,
                   engine_vars, worker_vars, buffer_size, input_ch,
                   command_ch, res_ch, input_vars, qlog, qret,
                   load_failed, keys, last_load, played>>

\* ------------------------------------------------------ AudioPlayerActor
\* AudioStreamBuilder::load seeds the state of the stream it builds.
NewStreamStatePlaying == "Play"
NewStreamState == "Pause"

Min(a, b) == IF a < b THEN a ELSE b

\* buffer_prod.vacant_len()
vacant_len == buffer_size - Len(buffer)

\* The samples numbered a+1 .. a+n, in order.
Samples(a, n) == [i \in 1 .. n |-> a + i]

\* AudioStream::load, lib.rs 264: the wait for room ends.
HasSpaceAlways(vacant, n) == TRUE
HasSpace(vacant, n) == vacant >= n

\* handle_prepare, player_actor.rs 116-118: the event after run() returned Ok
\* with the stream's state at s.
EventAfterRunAlways(s) == "Done"
EventAfterRun(s) == IF s = "Done" THEN "Done" ELSE None

\* command_rx.recv() of AudioPlayerActor::run: the one thread of the player
\* is there only when no handler, and so no run of a stream, is under way.
ReceivingAnytime == ~WorkerGone
Receiving == wpc = "recv"

\* res_tx.send(r): the reply channel is new and empty; the send fails when
\* its receiver was dropped with the JukeBox.
SendReply(r) == res_ch' = IF JukeBoxGone THEN res_ch ELSE <<r>>

\* Where handle_load leaves the player thread after it answered Err: it
\* returns Ok(()) and run's loop goes on to recv.
AfterLoadErrExits == "exited"
AfterLoadErr == "recv"

\* AudioPlayerActor::run receives Load: handle_load. The file may not open,
\* the stream may not build; else the new stream replaces the old one. A
\* reply that cannot be sent is logged by run, which goes on.
handle_load ==
    /\ Receiving
    /\ command_ch # <<>>
    /\ Head(command_ch).type = "Load"
    /\ command_ch' = <<>>
    /\ \/ /\ \E err \in {"Audio", "Stream"} :
                SendReply([type |-> err, state |-> 0])
          /\ load_failed' = TRUE
          /\ last_load' = "Err"
          /\ wpc' = AfterLoadErr
          /\ UNCHANGED <<cells, stream, engine_vars>>
       \/ /\ Len(cells) < MaxEngines
          /\ cells' = Append(release(cells, stream, stream_state),
                             NewStreamState)
          /\ stream' = Len(cells) + 1
          /\ audio_file' = Head(command_ch).file
          /\ packets' \in 1 .. MaxPackets
          /\ frames' = 0
          /\ block' = 0
          /\ buffer' = <<>>
          /\ pushed' = 0
          /\ device_playing' = FALSE
          /\ SendReply([type |-> "Ok", state |-> 0])
          /\ last_load' = "Ok"
          /\ UNCHANGED <<load_failed, wpc>>
    /\ UNCHANGED <<queue_vars, jukebox_vars, wevent, buffer_size,
                   input_ch, event_ch, input_vars, toggled, qlog, qret, keys,
                   played>>

\* AudioStream::state: a clone of the Arc, the same cell as the stream's.
AudioStream_state_none(st) == 0
AudioStream_state(st) == st

\* AudioPlayerActor::run receives Prepare: handle_prepare up to the first
\* packet of stream.load(), whose first call is audio_stream.play(). The
\* reply with the stream's state is sent with unwrap (player_actor.rs 109):
\* the thread panics if the send fails.
handle_prepare ==
    /\ Receiving
    /\ command_ch # <<>>
    /\ Head(command_ch).type = "Prepare"
    /\ command_ch' = <<>>
    /\ IF stream = 0
       THEN /\ SendReply([type |-> "NoStream", state |-> 0])
            /\ UNCHANGED <<wpc, device_playing>>
       ELSE /\ SendReply([type |-> "Ok", state |-> AudioStream_state(stream)])
            /\ IF JukeBoxGone
               THEN /\ wpc' = "panicked"
                    /\ UNCHANGED device_playing
               ELSE \/ /\ device_playing' = TRUE
                       /\ wpc' = "packets"
                    \/ /\ wpc' = "ret_err"
                       /\ UNCHANGED device_playing
    /\ UNCHANGED <<queue_vars, jukebox_vars, cells, wevent, stream,
                   audio_file, packets, frames, block, buffer, pushed,
                   buffer_size, input_ch, event_ch, input_vars, history_vars>>

\* lib.rs 296-304 for the packet just taken: send_packet, then the first
\* receive_frame and its resampling. The packet is not of the audio stream or
\* yields no frame, or it yields frames and the first block waits for room,
\* or decoding or resampling fails.
DecodePacket ==
    /\ packets' = packets - 1
    /\ \/ /\ wpc' = "ret_err"
          /\ frames' = 0
          /\ block' = 0
       \/ /\ wpc' = "packets"
          /\ frames' = 0
          /\ block' = 0
       \/ /\ wpc' = "buffer_wait"
          /\ frames' \in 1 .. MaxFrames
          /\ block' \in 1 .. MaxBlock

\* StreamState::is_paused, is_playing, is_stopped
is_paused_never(s) == FALSE
is_paused(s) == s = "Pause"
is_playing(s) == s = "Play"
is_stopped_never(s) == FALSE
is_stopped(s) == s = "Stop"

\* lib.rs 276-293: the next packet and the check of the state before it.
\* (The guard of the state taken at lib.rs 277 lives until the packet is
\* done unless the state is Paused; the cell is not read again before the
\* next check, so a write of the JukeBox that waits for the guard has the
\* effect of a write made at any moment before that check.)
EngineCheck ==
    /\ wpc = "packets"
    /\ packets > 0
    /\ IF is_paused(cells[stream])
       THEN \/ /\ device_playing' = FALSE
               /\ wpc' = "paused"
               /\ UNCHANGED <<packets, frames, block>>
            \/ /\ wpc' = "ret_err"
               /\ UNCHANGED <<device_playing, packets, frames, block>>
       ELSE IF is_stopped(cells[stream])
            THEN /\ wpc' = "ret_stopped"
                 /\ UNCHANGED <<device_playing, packets, frames, block>>
            ELSE /\ DecodePacket
                 /\ UNCHANGED device_playing
    /\ UNCHANGED <<queue_vars, jukebox_vars, cells, wevent, stream,
                   audio_file, buffer, pushed, buffer_size, channel_vars,
                   input_vars, history_vars>>

\* lib.rs 281-290: one round of the pause poll that ends it.
EnginePoll ==
    /\ wpc = "paused"
    /\ \/ /\ is_playing(cells[stream])
          /\ \/ /\ device_playing' = TRUE
                /\ DecodePacket
             \/ /\ wpc' = "ret_err"
                /\ UNCHANGED <<device_playing, packets, frames, block>>
       \/ /\ is_stopped(cells[stream])
          /\ wpc' = "ret_stopped"
          /\ UNCHANGED <<device_playing, packets, frames, block>>
    /\ UNCHANGED <<queue_vars, jukebox_vars, cells, wevent, stream,
                   audio_file, buffer, pushed, buffer_size, channel_vars,
                   input_vars, history_vars>>

\* buffer_prod.push_slice of a block of len samples: appends what fits.
push_slice(len) ==
    LET n == Min(vacant_len, len)
    IN  /\ buffer' = buffer \o Samples(pushed, n)
        /\ pushed' = pushed + n

\* lib.rs 264-269, then the next receive_frame: once there is room the block
\* is pushed; push_slice takes what fits.
EnginePush ==
    /\ wpc = "buffer_wait"
    /\ HasSpace(vacant_len, block)
    /\ push_slice(block)
    /\ \/ /\ frames > 1
          /\ frames' = frames - 1
          /\ \/ /\ block' \in 1 .. MaxBlock
                /\ UNCHANGED wpc
             \/ /\ block' = 0
                /\ wpc' = "ret_err"
       \/ /\ frames = 1
          /\ frames' = 0
          /\ block' = 0
          /\ wpc' = "packets"
    /\ UNCHANGED <<queue_vars, jukebox_vars, cells, wevent, stream,
                   audio_file, packets, device_playing, buffer_size,
                   channel_vars, input_vars, history_vars>>

\* lib.rs 308-309: the packets are exhausted.
EngineFinish ==
    /\ wpc = "packets"
    /\ packets = 0
    /\ cells' = [cells EXCEPT ![stream] = "Done"]
    /\ wpc' = "ret_finished"
    /\ UNCHANGED <<queue_vars, jukebox_vars, wevent, stream, engine_vars,
                   buffer_size, channel_vars, input_vars, history_vars>>

\* handle_prepare, player_actor.rs 110-118: run() has returned.
AfterRun ==
    /\ wpc \in {"ret_stopped", "ret_finished", "ret_err"}
    /\ LET e == IF wpc = "ret_err"
                THEN "StreamErr"
                ELSE EventAfterRun(cells[stream])
       IN  /\ wevent' = e
           /\ wpc' = IF e = None THEN "recv" ELSE "send_event"
    /\ UNCHANGED <<queue_vars, jukebox_vars, cells, stream, engine_vars,
                   buffer_size, channel_vars, input_vars, history_vars>>

\* event_tx.send: waits for the slot; fails once the receiver is dropped.
SendEvent ==
    /\ wpc = "send_event"
    /\ \/ /\ ~JukeBoxGone
          /\ ~Full(event_ch)
          /\ event_ch' = <<[type |-> wevent, from |-> stream]>>
       \/ /\ JukeBoxGone
          /\ UNCHANGED event_ch
    /\ wpc' = "recv"
    /\ wevent' = None
    /\ UNCHANGED <<queue_vars, jukebox_vars, cells, stream, engine_vars,
                   buffer_size, input_ch, command_ch, res_ch, input_vars,
                   history_vars>>

\* AudioPlayerActor::run: command_rx.recv() fails, the loop breaks and the
\* actor is dropped with its stream.
WorkerClosed ==
    /\ Receiving
    /\ command_ch = <<>>
    /\ JukeBoxGone
    /\ wpc' = "exited"
    /\ stream' = 0
    /\ cells' = release(cells, stream, stream_state)
    /\ device_playing' = FALSE
    /\ UNCHANGED <<queue_vars, jukebox_vars, wevent, audio_file,
                   packets, frames, block, buffer, pushed, buffer_size,
                   channel_vars, input_vars, history_vars>>

\* ------------------------------------------------------- device callback
\* cpal::Sample::EQUILIBRIUM of f32: silence. The samples pushed are numbered
\* from 1.
EQUILIBRIUM == 0

\* write_audio for a data slice of n slots: each slot takes the sample that
\* try_pop gives, or silence when it gives None. data is the slice as filled,
\* samples what is left in the buffer.
write_audio_short(samples, n) ==
    LET k == Min(n, Len(samples))
    IN  [data |-> SubSeq(samples, 1, k),
         samples |-> SubSeq(samples, k + 1, Len(samples))]
write_audio(samples, n) ==
    LET k == Min(n, Len(samples))
    IN  [data |-> SubSeq(samples, 1, k) \o [i \in 1 .. (n - k) |-> EQUILIBRIUM],
         samples |-> SubSeq(samples, k + 1, Len(samples))]

\* The device calls the closure of build_output_stream (lib.rs 202-205) for
\* n samples while the cpal stream plays.
DeviceCallback ==
    /\ stream # 0
    /\ device_playing
    /\ \E n \in 1 .. MaxRequest :
          buffer' = write_audio(buffer, n).samples
    /\ UNCHANGED <<queue_vars, jukebox_vars, cells, worker_vars, audio_file,
                   packets, frames, block, pushed, device_playing,
                   buffer_size, channel_vars, input_vars, history_vars>>

\* ------------------------------------------------------------ InputActor
\* The key-down callback sends a Command (JukeBox.input_rx receives any
\* Command); the send waits for the slot.
InputSend ==
    /\ input_state = "Active"
    /\ sent < MaxCmds
    /\ ~JukeBoxGone
    /\ ~Full(input_ch)
    /\ input_ch' = <<"Command">>
    /\ sent' = sent + 1
    /\ UNCHANGED <<queue_vars, jukebox_vars, cells, engine_vars, worker_vars,
                   buffer_size, command_ch, res_ch, event_ch, input_state,
                   history_vars>>

\* The send fails once the JukeBox is gone: State::Closed.
InputClosed ==
    /\ input_state = "Active"
    /\ JukeBoxGone
    /\ input_state' = "Closed"
    /\ UNCHANGED <<queue_vars, jukebox_vars, cells, engine_vars, worker_vars,
                   buffer_size, channel_vars, sent, history_vars>>

\* ------------------------------------------------------------------ Spec
Next ==
    \/ JukeBoxStart
    \/ RecvLoadReply
    \/ RecvPrepareReply
    \/ Play
    \/ HandleQuit
    \/ HandleNext
    \/ HandlePrevious
    \/ HandleRestart
    \/ RestartPrepare
    \/ HandleTogglePlay
    \/ HandleToggleLoop
    \/ HandleToggleAutoplay
    \/ HandleToggleShowState
    \/ HandleDone
    \/ HandleStreamErr
    \/ handle_load
    \/ handle_prepare
    \/ EngineCheck
    \/ EnginePoll
    \/ EnginePush
    \/ EngineFinish
    \/ AfterRun
    \/ SendEvent
    \/ WorkerClosed
    \/ DeviceCallback
    \/ InputSend
    \/ InputClosed

Spec == Init /\ [][Next]_vars

\* The player thread is scheduled while it has a step to take (the engine's
\* loops sleep and look again), and the device keeps calling write_audio
\* while the cpal stream plays.
Fairness ==
    /\ WF_vars(EngineCheck)
    /\ WF_vars(EnginePoll)
    /\ WF_vars(EnginePush)
    /\ WF_vars(EngineFinish)
    /\ WF_vars(DeviceCallback)

FairSpec == Spec /\ Fairness

\* ------------------------------------------- the PlaylistQueue on its own
\* Any caller of the pub methods of PlaylistQueue, in any order. qlog keeps
\* the last two calls: the method, its argument, the cursor and the loop flag
\* before it.
Logged(op, arg) ==
    LET e == [op |-> op, arg |-> arg, before |-> index,
              looping |-> loop_playlist]
    IN  IF qlog = <<>> THEN <<e>> ELSE <<qlog[Len(qlog)], e>>

queue_rest ==
    <<jukebox_vars, cells, engine_vars, worker_vars, buffer_size,
      channel_vars, input_vars, toggled, load_failed, keys, last_load,
      played>>

QueueNext ==
    /\ LET q == PlaylistQueue_next(index, loop_playlist, playlist_len)
       IN  /\ index' = q.index
           /\ qret' = q.ret
    /\ qlog' = Logged("next", 0)
    /\ UNCHANGED <<playlist_len, loop_playlist, queue_rest>>

QueueNextBack ==
    /\ LET q == PlaylistQueue_next_back(index, loop_playlist, playlist_len)
       IN  /\ index' = q.index
           /\ qret' = q.ret
    /\ qlog' = Logged("next_back", 0)
    /\ UNCHANGED <<playlist_len, loop_playlist, queue_rest>>

QueueSetIndex ==
    /\ \E i \in 0 .. (MaxLen + 1) :
          LET q == PlaylistQueue_set_index(index, i, playlist_len)
          IN  /\ index' = q.index
              /\ qret' = q.ret
              /\ qlog' = Logged("set_index", i)
    /\ UNCHANGED <<playlist_len, loop_playlist, queue_rest>>

QueueSetLooping ==
    /\ \E looping \in BOOLEAN :
          /\ loop_playlist' = looping
          /\ qlog' = Logged("set_looping", IF looping THEN 1 ELSE 0)
    /\ qret' = Ok
    /\ UNCHANGED <<playlist_len, index, queue_rest>>

QueueStep ==
    \/ QueueNext
    \/ QueueNextBack
    \/ QueueSetIndex
    \/ QueueSetLooping

QueueSpec == Init /\ [][QueueStep]_vars

\* The last call of qlog, and the one before it.
LastCall == qlog[Len(qlog)]
CallBefore == qlog[1]

\* C3: with looping disabled the cursor stays in [0, L] over any calls, and a
\* next() called with the cursor at L returns None and leaves the cursor at L.
C3_NoLoopCursorBounded ==
    /\ index \in 0 .. playlist_len
    /\ (qlog # <<>> /\ LastCall.op = "next" /\ ~LastCall.looping
            /\ LastCall.before = playlist_len)
        => (index = playlist_len /\ qret = NoTrack)

\* C3 witness: next() has just been called at the one-past-end cursor with
\* looping disabled, after a next() that reached it.
C3_Witness ==
    /\ Len(qlog) = 2
    /\ CallBefore.op = "next" /\ ~CallBefore.looping
    /\ CallBefore.before = playlist_len - 1
    /\ LastCall.op = "next" /\ ~LastCall.looping
    /\ LastCall.before = playlist_len

\* One looping step of op from cursor a to cursor b is +1 or -1 modulo L.
StepModulo(op, a, b) ==
    IF op = "next"
    THEN b % playlist_len = (a + 1) % playlist_len
    ELSE (b + 1) % playlist_len = a % playlist_len

\* The last two calls are next then next_back, or next_back then next, both
\* with looping enabled.
LoopRoundTrip ==
    /\ Len(qlog) = 2
    /\ CallBefore.looping /\ LastCall.looping
    /\ <<CallBefore.op, LastCall.op>> \in
          {<<"next", "next_back">>, <<"next_back", "next">>}

\* C4 as stated: with looping enabled, from every cursor value including L,
\* next then next_back (or the reverse) returns to the original cursor and
\* each step moves it by +1 or -1 modulo L.
C4_Original ==
    LoopRoundTrip =>
        /\ index = CallBefore.before
        /\ StepModulo(CallBefore.op, CallBefore.before, LastCall.before)
        /\ StepModulo(LastCall.op, LastCall.before, index)

\* C4 amended: the round trip and the modular steps hold from every cursor in
\* [0, L-1]; from the one-past-end cursor L a looping next goes to 0 and a
\* looping next_back to L-1, and the cursor does not come back to L.
C4_LoopRoundTrip ==
    LoopRoundTrip =>
        IF CallBefore.before < playlist_len
        THEN /\ index = CallBefore.before
             /\ StepModulo(CallBefore.op, CallBefore.before, LastCall.before)
             /\ StepModulo(LastCall.op, LastCall.before, index)
        ELSE /\ LastCall.before =
                    (IF CallBefore.op = "next" THEN 0 ELSE playlist_len - 1)
             /\ index # playlist_len

\* C4 witness: a looping next wrapped from L-1 to 0 and the next_back that
\* followed brought the cursor back to L-1.
C4_Witness ==
    /\ LoopRoundTrip
    /\ playlist_len >= 2
    /\ CallBefore.op = "next"
    /\ CallBefore.before = playlist_len - 1
    /\ LastCall.before = 0
    /\ index = playlist_len - 1

\* C5: over any calls of next, next_back, set_looping and set_index the
\* cursor is in [0, L]; set_index(i) with i >= L returns InvalidIndex and
\* leaves the cursor where it was; current() is None exactly at cursor L.
C5_CursorInvariant ==
    /\ index \in 0 .. playlist_len
    /\ (qlog # <<>> /\ LastCall.op = "set_index"
            /\ LastCall.arg >= playlist_len)
        => (qret = InvalidIndex /\ index = LastCall.before)
    /\ (qlog # <<>> /\ LastCall.op = "set_index"
            /\ LastCall.arg < playlist_len)
        => (qret = Ok /\ index = LastCall.arg)
    /\ (PlaylistQueue_current(index, playlist_len) = NoTrack)
        <=> (index = playlist_len)

\* C5 witness: set_index(L) was refused with the cursor at the one-past-end
\* value, where current() is None.
C5_Witness ==
    /\ qlog # <<>>
    /\ LastCall.op = "set_index"
    /\ LastCall.arg = playlist_len
    /\ index = playlist_len
    /\ qret = InvalidIndex

\* ------------------------------------------------------ the whole player
\* A step of the main thread.
JukeBoxStep ==
    \/ JukeBoxStart
    \/ RecvLoadReply
    \/ RecvPrepareReply
    \/ Play
    \/ HandleQuit
    \/ HandleNext
    \/ HandlePrevious
    \/ HandleRestart
    \/ RestartPrepare
    \/ HandleTogglePlay
    \/ HandleToggleLoop
    \/ HandleToggleAutoplay
    \/ HandleToggleShowState
    \/ HandleDone
    \/ HandleStreamErr

\* A step of the player thread inside AudioStream::load.
EngineStep == EngineCheck \/ EnginePoll \/ EnginePush \/ EngineFinish

\* A cell that exists before and after the step and whose value the step
\* changes (the release of a freed cell is no write).
Written(c) ==
    /\ c \in DOMAIN cells
    /\ cells'[c] # cells[c]
    /\ cells'[c] # "Dropped"

\* C1: every change of a StreamState cell is Paused->Playing or
\* Playing->Paused by the JukeBox, any->Stopped by the JukeBox, or
\* Playing/Paused->Finished by the engine; so Finished never becomes Playing
\* or Paused and the engine never turns Stopped into Finished.
C1_TransitionsConfined ==
    [][\A c \in DOMAIN cells :
          Written(c) =>
              \/ /\ JukeBoxStep
                 /\ \/ cells[c] = "Pause" /\ cells'[c] = "Play"
                    \/ cells[c] = "Play" /\ cells'[c] = "Pause"
                    \/ cells'[c] = "Stop"
              \/ /\ EngineStep
                 /\ cells[c] \in {"Play", "Pause"}
                 /\ cells'[c] = "Done"]_vars

\* C2: a resampled block enters the ring buffer in one push, made only when
\* the vacant space is at least its length: every step that pushes samples
\* pushes exactly the waiting block, so the samples pushed are always whole
\* blocks.
C2_WholeBlocks ==
    [][(stream' = stream /\ (pushed' # pushed \/ Len(buffer') > Len(buffer)))
          => /\ EnginePush
             /\ vacant_len >= block
             /\ pushed' = pushed + block
             /\ buffer' = buffer \o Samples(pushed, block)
             /\ Len(buffer') <= buffer_size]_vars

\* C2 witness: the engine has pushed a block and waits with the next one,
\* for which the buffer has too little room.
C2_Witness ==
    /\ wpc = "buffer_wait"
    /\ pushed > 0
    /\ vacant_len < block
    /\ vacant_len > 0

\* The message that tells the player to load track t.
Load(t) == [type |-> "Load", file |-> t]

\* The step in which load_and_prepare_stream, called by the handler of h,
\* receives the state of the prepared stream and the handler returns.
Prepared(h) ==
    /\ RecvPrepareReply
    /\ handling = h
    /\ Reply.type = "Ok"

\* The step in which the handler of h returns to select after a navigation
\* that found no track.
ReturnsAtEnd(h) ==
    /\ handling' = "Idle"
    /\ opc' = "select"
    /\ \/ Play /\ handling = h
       \/ opc \in {"select", "restart"} /\ ~PlaysAfter(h)

\* Scenario B: three tracks, looping off, autoplay on.
ScenarioB == playlist_len = 3 /\ ~loop_playlist /\ autoplay

\* The stream of track 2 has run to its end and its Done has been taken: the
\* player waits for a command and no event is left.
Track2Ended ==
    /\ audio_file = 2
    /\ stream_state = stream
    /\ wpc = "recv"
    /\ event_ch' = <<>>

\* C6: with 3 tracks, looping off and autoplay on, startup loads track 0 and
\* sets it Playing; a Done advances to the next track and sets it Playing;
\* the Done of track 2 moves the cursor to the one-past-end value, sends no
\* Load, does not end the JukeBox, and leaves the current state Paused.
C6_ScenarioB ==
    [][/\ (Prepared("Startup") /\ playlist_len = 3 /\ autoplay)
            => (audio_file = 0 /\ index' = 0
                /\ cells'[stream_state'] = "Play")
       /\ (HandleDone /\ ScenarioB /\ index < 2)
            => (index' = index + 1 /\ command_ch' = <<Load(index + 1)>>)
       /\ (Prepared("Done") /\ ScenarioB)
            => (audio_file = index /\ cells'[stream_state'] = "Play")
       /\ (HandleDone /\ ScenarioB /\ index = 2 /\ Track2Ended)
            => (index' = 3 /\ command_ch' = <<>> /\ ~JukeBoxGone')
       /\ ((HandleDone \/ Play) /\ ReturnsAtEnd("Done") /\ ScenarioB
             /\ index' = 3 /\ Track2Ended)
            => cells'[stream_state'] = "Pause"]_vars

C8_Original ==
    (Len(toggled) = 2 /\ toggled[1].before \in {"Play", "Pause"})
        => toggled[2].after = toggled[1].before

\* C8 amended: two TogglePlay commands handled back to back, between which
\* the engine does not write Finished, bring the state back to the Playing
\* or Paused it had before the first.
C8_ToggleTwice ==
    (Len(toggled) = 2 /\ toggled[1].before \in {"Play", "Pause"}
        /\ toggled[2].before = toggled[1].after)
        => toggled[2].after = toggled[1].before

\* C8 witness: Paused -> Playing -> Paused by two TogglePlay in a row.
C8_Witness ==
    /\ Len(toggled) = 2
    /\ toggled[1].before = "Pause"
    /\ toggled[2].before = "Play"
    /\ toggled[2].after = "Pause"
    /\ cells[stream_state] = "Pause"

\* C9: after run() returns the player sends at most one event: Done exactly
\* when run() returned Ok and the state read afterwards is Finished,
\* StreamErr exactly when run() returned an error, none when run() returned
\* on observing Stopped.
C9_EventAfterRun ==
    [][/\ AfterRun =>
            /\ (wevent' = "Done")
                  <=> (wpc # "ret_err" /\ cells[stream] = "Done")
            /\ (wevent' = "StreamErr") <=> (wpc = "ret_err")
            /\ (wpc = "ret_stopped") => (wevent' = None /\ wpc' = "recv")
       /\ (event_ch' # event_ch /\ event_ch' # <<>>)
            => /\ SendEvent
               /\ event_ch' = <<[type |-> wevent, from |-> stream]>>
               /\ wpc' = "recv"
       /\ (wevent # None /\ wevent' # wevent) => SendEvent]_vars

\* C9 witness: the run of a stream has returned on observing Stopped while
\* the Done of an earlier stream is still in the event channel.
C9_Witness ==
    /\ wpc = "ret_stopped"
    /\ event_ch # <<>>
    /\ Head(event_ch).type = "Done"
    /\ Head(event_ch).from # stream

WorkerStep ==
    \/ handle_load
    \/ handle_prepare
    \/ EngineStep
    \/ AfterRun
    \/ SendEvent
    \/ WorkerClosed

\* A step of the input actor.
InputStep == InputSend \/ InputClosed

\* C11 as stated: a send on the input, command or event channel completes
\* only when the receiver has taken the message, so while a message is in a
\* channel its sender takes no further step.
C11_Original ==
    [][/\ (input_ch # <<>> /\ input_ch' = input_ch) => ~InputStep
       /\ (command_ch # <<>> /\ command_ch' = command_ch) => ~JukeBoxStep
       /\ (event_ch # <<>> /\ event_ch' = event_ch) => ~WorkerStep]_vars

\* C11 amended: each of the three channels holds at most one message; a send
\* completes as soon as it has put its message in the empty channel, and a
\* message in a channel is not replaced: it leaves only when the receiving
\* thread takes it. The sender may go on meanwhile; only after a send on the
\* command channel does the JukeBox take no step before the player has taken
\* the message.
C11_SingleSlot ==
    [][/\ Len(input_ch') <= 1 /\ Len(command_ch') <= 1 /\ Len(event_ch') <= 1
       /\ (input_ch' # input_ch) =>
              IF input_ch = <<>> THEN InputSend ELSE input_ch' = <<>> /\ JukeBoxStep
       /\ (command_ch' # command_ch) =>
              IF command_ch = <<>>
              THEN JukeBoxStep
              ELSE command_ch' = <<>> /\ (handle_load \/ handle_prepare)
       /\ (event_ch' # event_ch) =>
              IF event_ch = <<>> THEN SendEvent ELSE event_ch' = <<>> /\ JukeBoxStep
       /\ (command_ch # <<>> /\ command_ch' = command_ch) => ~JukeBoxStep]_vars

\* C11 witness: a Done is in the event channel while the player thread, which
\* sent it, is already running the next stream.
C11_Witness ==
    /\ event_ch # <<>>
    /\ Head(event_ch).type = "Done"
    /\ wpc = "packets"
    /\ Head(event_ch).from # stream

\* ------------------------------------------------------- one run at a time
\* AudioStream::load (the run of a stream) is executing on the player thread.
InRun == wpc \in {"packets", "paused", "buffer_wait"}

\* C12: the player takes a Load or a Prepare from the command channel only
\* when no run of a stream is executing; only the state of the player's
\* current stream is written by a run, so at most one run is active; and a
\* Load sent after the JukeBox wrote Stopped is handled after the run of the
\* stopped stream has returned.
C12_OneRunAtATime ==
    [][/\ (command_ch # <<>> /\ command_ch' = <<>>)
            => ((handle_load \/ handle_prepare) /\ wpc = "recv" /\ ~InRun)
       /\ (stream' # stream) => ~InRun
       /\ EngineStep
            => (InRun /\ stream # 0
                /\ \A c \in DOMAIN cells : Written(c) => c = stream)
       /\ (handle_load /\ stream_state # 0 /\ cells[stream_state] = "Stop")
            => (wpc = "recv" /\ (stream' # stream => stream' = Len(cells) + 1))]_vars

\* C12 witness: a Load waits in the command channel while the run of the
\* stream the JukeBox has just stopped is still executing.
C12_Witness ==
    /\ command_ch = <<Load(1)>>
    /\ InRun
    /\ stream_state = stream
    /\ cells[stream] = "Stop"

\* --------------------------------------------------------------- Stopped
\* C13: once the state of the stream whose run is executing is Stopped, the
\* run returns (the engine's steps and the device callback being scheduled);
\* a check or a poll that reads Stopped returns at once, decoding and pushing
\* nothing, and nothing is decoded or pushed after it.
C13_StopEndsRun ==
    /\ (InRun /\ cells[stream] = "Stop") ~> ~InRun
    /\ [][/\ ((EngineCheck \/ EnginePoll) /\ cells[stream] = "Stop")
               => (wpc' = "ret_stopped" /\ packets' = packets
                   /\ pushed' = pushed /\ buffer' = buffer)
          /\ (wpc = "ret_stopped" /\ stream' = stream)
               => (packets' = packets /\ pushed' = pushed
                   /\ Len(buffer') <= Len(buffer)
                   /\ wpc' \in {"ret_stopped", "recv"})]_vars

\* C13 witness: the JukeBox stopped a stream that had pushed samples and
\* still had a packet to come; the check before that packet read Stopped and
\* the run has returned, the packet left undecoded.
C13_Witness ==
    /\ wpc = "ret_stopped"
    /\ stream_state = stream
    /\ cells[stream] = "Stop"
    /\ packets > 0
    /\ pushed > 0
    /\ opc = "wait_load"

client_rest ==
    <<queue_vars, jukebox_vars, engine_vars, worker_vars, buffer_size,
      input_ch, input_vars, history_vars>>

ClientLoad ==
    /\ ~Full(command_ch)
    /\ res_ch = <<>>
    /\ \E file \in 0 .. (playlist_len - 1) :
          command_ch' = <<[type |-> "Load", file |-> file]>>
    /\ UNCHANGED <<client_rest, cells, res_ch, event_ch>>

ClientPrepare ==
    /\ ~Full(command_ch)
    /\ res_ch = <<>>
    /\ command_ch' = <<[type |-> "Prepare", file |-> 0]>>
    /\ UNCHANGED <<client_rest, cells, res_ch, event_ch>>

ClientTakeReply ==
    /\ res_ch # <<>>
    /\ res_ch' = <<>>
    /\ UNCHANGED <<client_rest, cells, command_ch, event_ch>>

ClientTakeEvent ==
    /\ event_ch # <<>>
    /\ event_ch' = <<>>
    /\ UNCHANGED <<client_rest, cells, command_ch, res_ch>>

ClientWrite ==
    /\ stream # 0
    /\ \E s \in {"Play", "Pause", "Stop"} :
          cells' = [cells EXCEPT ![stream] = s]
    /\ UNCHANGED <<client_rest, command_ch, res_ch, event_ch>>

WorkerNext ==
    \/ ClientLoad
    \/ ClientPrepare
    \/ ClientTakeReply
    \/ ClientTakeEvent
    \/ ClientWrite
    \/ handle_load
    \/ handle_prepare
    \/ EngineCheck
    \/ EnginePoll
    \/ EnginePush
    \/ EngineFinish
    \/ AfterRun
    \/ SendEvent
    \/ DeviceCallback

WorkerSpec == Init /\ [][WorkerNext]_vars

\* The reply to a Load that said Err.
LoadErr(r) == r.type \in {"Audio", "Stream"}

\* A Load is the next thing the player's recv will return.
LoadPending ==
    /\ wpc = "recv"
    /\ command_ch # <<>>
    /\ Head(command_ch).type = "Load"

C16_StreamErrFatal ==
    [][/\ (opc = "select" /\ event_ch # <<>> /\ event_ch' = <<>>
              /\ Head(event_ch).type = "StreamErr")
            => /\ HandleStreamErr
               /\ opc' = "exited"
               /\ index' = index
               /\ loop_playlist' = loop_playlist
               /\ command_ch' = command_ch
               /\ command_ch = <<>>
       /\ (opc = "exited")
            => /\ opc' = "exited"
               /\ index' = index
               /\ command_ch' = command_ch]_vars

\* C16 witness: run's loop has ended with no command ever sent by the input
\* actor and no Load answered Err: it ended over a StreamErr.
C16_Witness ==
    /\ opc = "exited"
    /\ sent = 0
    /\ ~load_failed
    /\ index < playlist_len

\* ------------------------------------------------------ Next and Previous
\* The handler of Next or Previous whose navigation finds no track: looping
\* is off and Previous is taken at cursor 0, or Next at L-1 or at L.
FindsNoTrack ==
    /\ ~loop_playlist
    /\ \/ HandlePrevious /\ index = 0
       \/ HandleNext /\ index + 1 >= playlist_len

\* C17: when the navigation of Next or Previous returns None the JukeBox
\* sends no Load and does not write Playing to the current state; Previous at
\* cursor 0 leaves the cursor where it is. (With a track found the state is
\* set to Playing once the track is prepared.)
C17_PlayOnlyOnSuccess ==
    [][/\ FindsNoTrack => (command_ch' = command_ch /\ opc' # "wait_load")
       /\ (HandlePrevious /\ index = 0 /\ ~loop_playlist) => index' = index
       /\ (FindsNoTrack /\ stream_state # 0)
            => cells'[stream_state] # "Play"
       /\ (Play /\ handling \in {"Next", "Previous"} /\ stream_state # 0)
            => cells'[stream_state] # "Play"
       /\ (Prepared("Next") \/ Prepared("Previous"))
            => cells'[stream_state'] = "Play"]_vars

\* ---------------------------------------------- the key table on its own
\* main.rs CMD_KEY_*
CMD_KEY_QUIT == "q"
CMD_KEY_PREVIOUS == "j"
CMD_KEY_NEXT == "k"
CMD_KEY_RESTART == "r"
CMD_KEY_TOGGLE_PLAY == "p"
CMD_KEY_TOGGLE_LOOP == "l"
CMD_KEY_TOGGLE_AUTOPLAY == "a"
CMD_KEY_TOGGLE_SHOW_STATE == "s"

\* The keys pressed: those with a CMD_KEY_ constant and two others.
Keycode ==
    {CMD_KEY_QUIT, CMD_KEY_PREVIOUS, CMD_KEY_NEXT, CMD_KEY_RESTART,
     CMD_KEY_TOGGLE_PLAY, CMD_KEY_TOGGLE_LOOP, CMD_KEY_TOGGLE_AUTOPLAY,
     CMD_KEY_TOGGLE_SHOW_STATE, "x", "Enter"}

\* Option<Command>
SomeCommand(c) == [kind |-> "Some", val |-> c]
NoCommand == [kind |-> "None", val |-> "None"]

\* input_actor.rs command_from_code
command_from_code(code) ==
    CASE code = CMD_KEY_QUIT -> SomeCommand("Quit")
      [] code = CMD_KEY_PREVIOUS -> SomeCommand("Previous")
      [] code = CMD_KEY_NEXT -> SomeCommand("Next")
      [] code = CMD_KEY_TOGGLE_PLAY -> SomeCommand("TogglePlay")
      [] OTHER -> NoCommand

\* The key-down callback for the key code: the Command of the key, if it has
\* one, is sent on the input channel; a send that fails closes the actor.
KeyDown ==
    /\ input_state = "Active"
    /\ Len(keys) < MaxKeys
    /\ \E code \in Keycode :
          /\ keys' = Append(keys, code)
          /\ LET cmd == command_from_code(code)
             IN  IF cmd.kind = "Some"
                 THEN IF JukeBoxGone
                      THEN /\ input_state' = "Closed"
                           /\ UNCHANGED input_ch
                      ELSE /\ ~Full(input_ch)
                           /\ input_ch' = <<cmd.val>>
                           /\ UNCHANGED input_state
                 ELSE UNCHANGED <<input_ch, input_state>>
    /\ UNCHANGED <<queue_vars, jukebox_vars, cells, engine_vars, worker_vars,
                   buffer_size, command_ch, res_ch, event_ch, sent, toggled,
                   qlog, qret, load_failed, last_load, played>>

\* The receiver of the input channel takes the Command.
KeyTake ==
    /\ input_ch # <<>>
    /\ input_ch' = <<>>
    /\ UNCHANGED <<queue_vars, jukebox_vars, cells, engine_vars, worker_vars,
                   buffer_size, command_ch, res_ch, event_ch, input_vars,
                   history_vars>>

KeyNext == KeyDown \/ KeyTake

KeySpec == Init /\ [][KeyNext]_vars

\* The keys of the crate's documentation (main.rs 3-11), one per Command.
KeyTable ==
    (CMD_KEY_QUIT :> "Quit") @@ (CMD_KEY_TOGGLE_PLAY :> "TogglePlay")
    @@ (CMD_KEY_NEXT :> "Next") @@ (CMD_KEY_PREVIOUS :> "Previous")
    @@ (CMD_KEY_RESTART :> "Restart") @@ (CMD_KEY_TOGGLE_LOOP :> "ToggleLoop")
    @@ (CMD_KEY_TOGGLE_AUTOPLAY :> "ToggleAutoplay")
    @@ (CMD_KEY_TOGGLE_SHOW_STATE :> "ToggleShowState")

\* The key pressed by the step.
Pressed == keys'[Len(keys')]

\* C18: the key table gives a key to each of the eight Commands: a key-down
\* of one of the eight keys sends its Command on the input channel, a
\* key-down of any other key sends nothing, and every Command is the Command
\* of some key.
C18_KeyTable ==
    [][KeyDown =>
          /\ IF Pressed \in DOMAIN KeyTable
             THEN input_ch' = <<KeyTable[Pressed]>>
             ELSE input_ch' = input_ch
          /\ \A c \in Command :
                \E code \in Keycode : command_from_code(code) = SomeCommand(c)]_vars

\* ------------------------------------------------------ replies and events
\* The JukeBox waits in load_and_prepare_stream for the reply to a Load or a
\* Prepare; it takes no event meanwhile.
AwaitsReply == opc \in {"wait_load", "wait_prepare"}

\* The player waits in event_tx.send for the event channel to have room.
EventSendBlocked == wpc = "send_event" /\ Full(event_ch)

\* C19: the JukeBox never waits for a reply while the player is blocked
\* sending an event on the full event channel (neither could go on: the
\* player answers only after the send, the channel is emptied only by the
\* JukeBox's select), so every Load and Prepare is answered.
C19_RepliesArrive == ~(AwaitsReply /\ EventSendBlocked /\ res_ch = <<>>)

\* C20: every Done the JukeBox handles was sent for the stream it holds the
\* state of, which plays the track at the cursor: a Done of a stream that a
\* Next, Previous or Restart has replaced is not handled as the end of the
\* new track.
C20_DoneOfCurrentTrack ==
    [][HandleDone
          => /\ Head(event_ch).from = stream_state
             /\ Head(event_ch).from = stream]_vars

\* ------------------------------------------------------------- C21 - C28
\* lib.rs 308-309 then player_actor.rs 116: the run that exhausted its
\* packets has returned and no track switch has written Stop to its state.
FinishedUnswitched == wpc = "ret_finished" /\ ~is_stopped(cells[stream])

\* C21: when an engine has exhausted its input and the JukeBox has asked for
\* no track switch, the worker emits Event::Done for it, whatever commands the
\* JukeBox handled between the engine's write of Done and the worker's read
\* of the state.
C21_DoneAfterFinish ==
    [][(AfterRun /\ FinishedUnswitched) => wevent' = "Done"]_vars

\* The reply of handle_prepare when the actor holds no stream.
NoStream == [type |-> "NoStream", state |-> 0]

\* C22: a Load discards the stream the actor held before, whether it is
\* answered Ok or Err: the Prepare that follows a Load answered Err finds no
\* stream, and the Prepare that follows a Load answered Ok replies with the
\* state of the stream that Load built; it never replies with the state of,
\* nor runs, a stream built by an earlier Load.
C22_LoadDiscards ==
    [][handle_prepare
          => IF last_load = "Ok"
             THEN /\ stream = Len(cells)
                  /\ res_ch' = <<[type |-> "Ok", state |-> stream]>>
             ELSE /\ res_ch' = <<NoStream>>
                  /\ wpc' = "recv"]_vars

\* lib.rs 278-290: the check before a packet has found Pause and the poll has
\* not found Play since.
ObservedPaused == wpc = "paused"

\* A step of the run that takes a packet to the decoder.
Decodes == stream' = stream /\ packets' < packets

\* A step that puts samples in the ring buffer of the current stream.
Pushes == stream' = stream /\ pushed' > pushed

\* C23: while the check before a packet has observed Pause and not yet Play,
\* the engine decodes no packet and pushes no samples and the device output
\* is paused; a newly built stream has a fresh state seeded Pause, an empty
\* buffer and a paused output, and no packet is decoded and no samples are
\* pushed before Play has been written to the state of that stream.
C23_PausedEngineIdle ==
    [][/\ ObservedPaused' => ~device_playing'
       /\ (ObservedPaused /\ ~is_playing(cells[stream]))
             => (~Decodes /\ ~Pushes /\ ~device_playing')
       /\ (handle_load /\ stream' # stream)
             => /\ cells'[stream'] = "Pause"
                /\ stream' = Len(cells')
                /\ pushed' = 0
                /\ buffer' = <<>>
                /\ ~device_playing'
       /\ Decodes => is_playing(cells[stream])
       /\ Pushes => (frames > 0 /\ packets' = packets)]_vars

\* An engine that was run with its state still Pause waits in the poll with
\* nothing decoded and nothing pushed while the JukeBox is in its select.
C23_Witness ==
    /\ opc = "select"
    /\ ObservedPaused
    /\ stream_state = stream
    /\ cells[stream] = "Pause"
    /\ pushed = 0
    /\ buffer = <<>>
    /\ ~device_playing

\* What no flag toggle touches: the cursor and the list, the handle of the
\* JukeBox and every state, the worker and its engine, and the channels to
\* and from the worker.
ToggleFrame ==
    UNCHANGED <<playlist_len, index, stream_state, cells, opc, worker_vars,
                engine_vars, command_ch, res_ch, event_ch>>

\* C24: ToggleLoop, ToggleAutoplay and ToggleShowState each flip their own
\* flag and nothing else: the cursor, the JukeBox's state handle and the
\* value of that state stay as they are and no request goes to the worker;
\* the same toggle once more gives the flag its old value back.
C24_TogglesFlipOwnFlag ==
    [][/\ HandleToggleLoop
             => /\ loop_playlist' = ~loop_playlist
                /\ toggle(loop_playlist') = loop_playlist
                /\ UNCHANGED <<autoplay, show_state>>
                /\ ToggleFrame
       /\ HandleToggleAutoplay
             => /\ autoplay' = ~autoplay
                /\ toggle(autoplay') = autoplay
                /\ UNCHANGED <<loop_playlist, show_state>>
                /\ ToggleFrame
       /\ HandleToggleShowState
             => /\ show_state' = ~show_state
                /\ toggle(show_state') = show_state
                /\ UNCHANGED <<loop_playlist, autoplay>>
                /\ ToggleFrame]_vars

\* Three commands were sent and each of the three flags has left its start
\* value, so each toggle was handled once; the first track is still playing.
C24_Witness ==
    /\ opc = "select"
    /\ sent = 3
    /\ input_ch = <<>>
    /\ ~loop_playlist
    /\ ~autoplay
    /\ ~show_state
    /\ index = 0
    /\ stream_state = stream
    /\ cells[stream] = "Play"

\* C25: whenever the JukeBox waits in its select after a startup that
\* succeeded, its state handle is the cell of the stream the player actor
\* holds, so what it writes reaches the engine that runs or ran last.
C25_HandleIsCurrentStream ==
    opc = "select" => (stream # 0 /\ stream_state = stream)

\* The JukeBox is back in its select after a second stream replaced the
\* first, which was released.
C25_Witness ==
    /\ opc = "select"
    /\ stream = 2
    /\ stream_state = 2
    /\ cells[1] = "Dropped"
    /\ InRun

\* C26: once the JukeBox has left its loop and dropped its channel ends, the
\* player actor's loop ends under fair scheduling, whatever the stream was
\* doing: until the actor has ended, it or the device callback that empties
\* its buffer always has a step to take.
C26_WorkerEnds ==
    (JukeBoxGone /\ ~WorkerGone) => ENABLED (WorkerStep \/ DeviceCallback)

\* --------------------------------------------- the ring buffer on its own
\* The producer and the consumer of one ring buffer, in any order: the
\* closure of AudioStream::load that queues a resampled block, and the device
\* callback. played keeps, for each callback, the number of slots asked for
\* and the slots as write_audio filled them.
MaxPushed == 4
MaxCallbacks == 3

ring_rest ==
    <<queue_vars, jukebox_vars, cells, worker_vars, audio_file, packets,
      frames, block, device_playing, buffer_size, channel_vars, input_vars,
      toggled, qlog, qret, load_failed, keys, last_load>>

\* lib.rs 262-269: wait until the block fits, then push it.
RingPush ==
    /\ \E len \in 1 .. MaxBlock :
          /\ pushed + len <= MaxPushed
          /\ HasSpace(vacant_len, len)
          /\ push_slice(len)
    /\ UNCHANGED <<ring_rest, played>>

\* lib.rs 202-205 and 382-395: a callback for n slots.
RingCallback ==
    /\ Len(played) < MaxCallbacks
    /\ \E n \in 1 .. MaxRequest :
          LET w == write_audio(buffer, n)
          IN  /\ buffer' = w.samples
              /\ played' = Append(played, [requested |-> n, data |-> w.data])
    /\ UNCHANGED <<ring_rest, pushed>>

RingNext == RingPush \/ RingCallback

RingSpec == Init /\ [][RingNext]_vars

\* The slots of all callbacks so far, in order, without the silent ones.
RECURSIVE Delivered(_)
Delivered(log) ==
    IF log = <<>>
    THEN <<>>
    ELSE Delivered(SubSeq(log, 1, Len(log) - 1))
            \o SelectSeq(log[Len(log)].data, LAMBDA x : x # EQUILIBRIUM)

\* C27: the ring buffer never holds more samples than its capacity and no
\* pushed sample is overwritten before it is popped: the samples the callbacks
\* delivered, followed by those still in the buffer, are the samples pushed,
\* in order; each callback fills exactly the slots asked for, with the
\* samples at the head of the buffer and with silence only for the slots that
\* found the buffer empty.
C27_RingBufferFifo ==
    [][/\ Len(buffer') <= buffer_size
       /\ Delivered(played') \o buffer' = Samples(0, pushed')
       /\ RingCallback
             => LET cb == played'[Len(played')]
                IN  /\ Len(cb.data) = cb.requested
                    /\ \A i \in 1 .. cb.requested :
                          cb.data[i] = IF i <= Len(buffer)
                                       THEN buffer[i]
                                       ELSE EQUILIBRIUM]_vars

\* A callback found one sample for two slots, a later one found the buffer
\* full again, and samples pushed since are waiting.
C27_Witness ==
    /\ Len(played) = 3
    /\ played[1].data = <<1, EQUILIBRIUM>>
    /\ played[2].data = <<EQUILIBRIUM>>
    /\ Len(played[3].data) = 2
    /\ played[3].data[2] # EQUILIBRIUM
    /\ buffer # <<>>
    /\ pushed = MaxPushed

\* handle_load replaces a stream whose run has read all its packets, for the
\* Load that handle_event sends on Event::Done.
ReplacesFinished ==
    /\ handle_load
    /\ stream # 0
    /\ stream' # stream
    /\ handling = "Done"
    /\ packets = 0
    /\ frames = 0

\* C28: when the stream of a track that played to its end is replaced by the
\* Load of the auto-advance, the device callback has already taken every
\* sample that stream pushed: its ring buffer is empty.
C28_FinishedTrackPlayedOut ==
    [][ReplacesFinished => buffer = <<>>]_vars

====
